---- MODULE Spec2Model ----
(***************************************************************************)
(* Job orchestration and Docker rendering pipeline of manim-api.           *)
(*                                                                         *)
(* JavaScript runs every handler to its next await without interleaving,   *)
(* so one action of this module is one such synchronous segment:           *)
(*   createJob         jobQueue.createJob, the synchronous head of         *)
(*                     processJob and of compileVideo (up to the await of  *)
(*                     runDockerCommand)                                   *)
(*   DockerSettles     the renderer's 'close' or 'error' event and the     *)
(*                     continuation of compileVideo up to its next await   *)
(*                     or its return                                       *)
(*   UploadSettles     the end of uploadVideoToSupabase and the rest of    *)
(*                     compileVideo                                        *)
(*   postCompile       the handler of POST /compile up to its response 400 *)
(*                     or to the same await inside compileVideo            *)
(*   getJob, clearOldJobs, Tick                                            *)
(* When compileVideo returns, the continuation of processJob is a          *)
(* microtask of the same turn and is part of the same action.              *)
(*                                                                         *)
(* Spec runs MaxExecs jobs concurrently; SpecRender runs one job alone in  *)
(* every environment (filesystem faults, signals, every output layout);    *)
(* SpecRenderFair and SpecRenderHung add the fairness of a renderer that   *)
(* always ends and of one that may not; SpecRoute serves MaxExecs requests *)
(* to POST /compile concurrently; SpecFind applies findRenderedVideo to    *)
(* every media directory of a bounded set; SpecUnattended leaves the       *)
(* service running for MaxDays days with the fairness of what it does on   *)
(* its own.  GET /video/:videoId only reads the bucket and is the operator *)
(* getVideo.                                                               *)
(*                                                                         *)
(* Text is a sequence of string pieces (concatenation is \o, the empty     *)
(* string is << >>); an optional value is << >> (undefined) or <<v>>.      *)
(***************************************************************************)
EXTENDS Integers, Sequences, FiniteSets, TLC

VARIABLES
    jobs,      \* JobQueueManager.jobs: job id -> reference into heap (0: no entry)
    heap,      \* the Job objects ever created, by reference
    execs,     \* the executions of compileVideo, with their position
    fs,        \* temp/<jobId>: the workspace directories
    bucket,    \* the storage bucket: key -> bytes
    now,       \* Date.now(), in milliseconds
    lastGet,   \* the reference getJob returned last (0: undefined)
    cleared,   \* the number clearOldJobs returned last
    requests,  \* the POST /compile requests received, with their response
    probe      \* one application of a pure function: its input and its result

vars == <<jobs, heap, execs, fs, bucket, now, lastGet, cleared, requests, probe>>

-----------------------------------------------------------------------------
(* Bounds of the model *)

\* Calls of createJob in a behaviour of Spec, requests in one of SpecRoute
MaxExecs == 2
\* Hours the clock advances
MaxTime == 1
\* Days the clock advances when the service is left running
MaxDays == 2
\* Calls of cleanupTempFiles on one workspace
MaxCalls == 2

-----------------------------------------------------------------------------
(* Values *)

Undefined == << >>
Some(v) == <<v>>
Text(s) == <<s>>
EmptyText == << >>

\* JavaScript truthiness of an optional string: undefined and '' are falsy
Truthy(opt) == opt # Undefined /\ opt[1] # EmptyText

\* a || b on strings
OrElse(a, b) == IF a # EmptyText THEN a ELSE b

JobIds == {"j1", "j2"}
\* The ids POST /compile generates for the requests that carry none, by
\* request number
GeneratedIds == <<"job_1", "job_2", "job_3", "job_4">>
\* Every id a workspace or a storage key is named after
WorkIds == JobIds \cup {GeneratedIds[n] : n \in DOMAIN GeneratedIds}

PENDING == "pending"
PROCESSING == "processing"
COMPLETED == "completed"
FAILED == "failed"

JobStatus == {PENDING, PROCESSING, COMPLETED, FAILED}

\* Source code, as its tokens
CodeAlpha == <<"class", "Alpha", "(", "Scene", ")">>
CodePlain == <<"x", "=", "1">>
Codes == {CodeAlpha, CodePlain}
\* A program whose Scene class comes after another class
CodeTwo == <<"class", "Helper", "(", "object", ")", "class", "Beta", "(", "Scene", ")">>
RenderCodes == Codes \cup {CodeTwo}

-----------------------------------------------------------------------------
(* The filesystem under temp/<jobId> *)

\* A file name is its sequence of tokens; the extension is the last token.
Mp4 == ".mp4"

EndsWithMp4(f) == Len(f) > 0 /\ f[Len(f)] = Mp4

\* f.includes(sceneName), on tokens
Includes(f, sceneName) == \E i \in 1..Len(f) : f[i] = sceneName

qualityDirs == <<"480p15", "720p30", "1080p60", "2160p60">>

QualityDirSet == {qualityDirs[i] : i \in 1..Len(qualityDirs)}

\* A directory media/videos/scene/<quality>: absent, present but not listable
\* (readdirSync throws), or a listing of files, each with its bytes.
AbsentDir == [kind |-> "absent", files |-> << >>]
UnreadableDir == [kind |-> "unreadable", files |-> << >>]
Listing(files) == [kind |-> "dir", files |-> files]

NoMedia == [q \in QualityDirSet |-> AbsentDir]

\* temp/<jobId> does not exist
NoWorkspace == [exists |-> FALSE, scene |-> Undefined, media |-> NoMedia]

\* temp/<jobId> just after mkdirSync
FreshWorkspace == [exists |-> TRUE, scene |-> Undefined, media |-> NoMedia]

-----------------------------------------------------------------------------
(* Artifact locator *)

\* files.find(pred): index of the first file satisfying pred, 0 if none
RECURSIVE FindIndex(_, _, _, _)
FindIndex(files, i, sceneName, byName) ==
    IF i > Len(files) THEN 0
    ELSE IF EndsWithMp4(files[i].name)
            /\ (byName => Includes(files[i].name, sceneName))
         THEN i
         ELSE FindIndex(files, i + 1, sceneName, byName)

\* The loop of findRenderedVideo from candidate directory k on.  The result is
\* the path found, as <<[dir, name]>>, or << >> for null.  A readdirSync
\* that throws leaves the loop through the catch, which returns null.
RECURSIVE FindFrom(_, _, _)
FindFrom(media, sceneName, k) ==
    IF k > Len(qualityDirs) THEN Undefined
    ELSE LET d == media[qualityDirs[k]]
             videoFile == FindIndex(d.files, 1, sceneName, TRUE)
             anyMp4 == FindIndex(d.files, 1, sceneName, FALSE)
         IN  CASE d.kind = "absent" -> FindFrom(media, sceneName, k + 1)
               [] d.kind = "unreadable" -> Undefined
               [] videoFile # 0 ->
                     Some([dir |-> qualityDirs[k], name |-> d.files[videoFile].name])
               [] anyMp4 # 0 ->
                     Some([dir |-> qualityDirs[k], name |-> d.files[anyMp4].name])
               [] OTHER -> FindFrom(media, sceneName, k + 1)

\* The locator looking for the named video in every directory before it
\* falls back to any video
findRenderedVideo_NameFirst(media, sceneName) ==
    LET RECURSIVE Pass(_, _)
        Pass(k, byName) ==
            IF k > Len(qualityDirs) THEN Undefined
            ELSE LET d == media[qualityDirs[k]]
                     found == FindIndex(d.files, 1, sceneName, byName)
                 IN  CASE d.kind = "absent" -> Pass(k + 1, byName)
                       [] d.kind = "unreadable" -> Undefined
                       [] found # 0 ->
                             Some([dir |-> qualityDirs[k], name |-> d.files[found].name])
                       [] OTHER -> Pass(k + 1, byName)
        named == Pass(1, TRUE)
    IN  IF named # Undefined THEN named ELSE Pass(1, FALSE)

findRenderedVideo(media, sceneName) == FindFrom(media, sceneName, 1)

\* readFileSync(videoPath): the bytes of the file at path
ReadFile(media, path) ==
    LET files == media[path.dir].files
        i == CHOOSE i \in 1..Len(files) : files[i].name = path.name
    IN  files[i].bytes

-----------------------------------------------------------------------------
(* Workspace release *)

\* cleanupTempFiles leaving the directory in place
cleanupTempFiles_Keep(d, rmFails) == d

\* cleanupTempFiles(tempDir) on the filesystem d of one workspace; rmFails
\* says that rmSync throws, which the function catches and logs.
cleanupTempFiles(d, rmFails) ==
    IF d.exists /\ ~rmFails THEN NoWorkspace ELSE d

-----------------------------------------------------------------------------
(* Entry point detection *)

DefaultScene == "Scene"

\* code.match(/class\s+(\w+)\s*\(\s*Scene\s*\)/): the position of the first
\* match in the token sequence, 0 if there is none
RECURSIVE SceneMatchFrom(_, _)
SceneMatchFrom(code, i) ==
    IF i + 4 > Len(code) THEN 0
    ELSE IF /\ code[i] = "class"
            /\ code[i + 1] \notin {"(", ")", "="}
            /\ code[i + 2] = "("
            /\ code[i + 3] = "Scene"
            /\ code[i + 4] = ")"
         THEN i
         ELSE SceneMatchFrom(code, i + 1)

\* The scene name never taken from the source
SceneNameOf_Default(code) == DefaultScene

SceneNameOf(code) ==
    LET m == SceneMatchFrom(code, 1)
    IN  IF m # 0 THEN code[m + 1] ELSE DefaultScene

-----------------------------------------------------------------------------
(* Process runner *)

\* What the child process does, as the runner sees it: either the 'error'
\* event (the process could not be spawned) or the 'close' event with the
\* exit code (<< >> for null: ended by a signal) and the output captured.
SpawnError(msg) == [event |-> "error", message |-> msg]
Closed(code, out, err) ==
    [event |-> "close", code |-> code, stdout |-> out, stderr |-> err]

\* code || 0
CodeOrZero(code) == IF code = Undefined THEN 0 ELSE code[1]

\* runDockerCommand resolving a spawn failure with exit code 0
runDockerCommand_ErrorAsZero(ev) ==
    IF ev.event = "close"
    THEN [stdout |-> ev.stdout, stderr |-> ev.stderr, exitCode |-> CodeOrZero(ev.code)]
    ELSE [stdout |-> EmptyText, stderr |-> ev.message, exitCode |-> 0]

\* The value runDockerCommand resolves with
runDockerCommand(ev) ==
    IF ev.event = "close"
    THEN [stdout |-> ev.stdout, stderr |-> ev.stderr, exitCode |-> CodeOrZero(ev.code)]
    ELSE [stdout |-> EmptyText, stderr |-> ev.message, exitCode |-> 1]

\* new Promise((resolve) => ...): the promise runDockerCommand returns, before
\* any event of the child process
Pending == [state |-> "pending"]
Fulfilled(v) == [state |-> "fulfilled", value |-> v]

\* resolve(v) overwriting the value of a promise that is already settled
Resolve_LastWins(p, v) == Fulfilled(v)

\* resolve(v): settles a pending promise and is ignored by a settled one
Resolve(p, v) == IF p.state = "pending" THEN Fulfilled(v) ELSE p

\* rmSync(tempDir, {recursive, force}) on the workspace d; rmFails says it throws
RmError == <<"EBUSY: resource busy or locked">>
rmSync(d, rmFails) ==
    IF rmFails THEN [d |-> d, thrown |-> Some(RmError)]
    ELSE [d |-> NoWorkspace, thrown |-> Undefined]

\* cleanupTempFiles without its try/catch
tryCleanup_Rethrow(d, rmFails) ==
    LET r == IF d.exists THEN rmSync(d, rmFails) ELSE [d |-> d, thrown |-> Undefined]
    IN  [d |-> r.d, thrown |-> r.thrown, logged |-> Undefined]

\* One call of cleanupTempFiles(tempDir) with what it throws and what it logs:
\* existsSync guards rmSync, and the catch block logs what rmSync throws
tryCleanup(d, rmFails) ==
    LET r == IF d.exists THEN rmSync(d, rmFails) ELSE [d |-> d, thrown |-> Undefined]
    IN  [d |-> r.d, thrown |-> Undefined, logged |-> r.thrown]


-----------------------------------------------------------------------------
(* Storage gateway *)

\* One key for every job
FileNameOf_Fixed(jobId) == <<"video", Mp4>>

\* `${jobId}.mp4`
FileNameOf(jobId) == <<jobId, Mp4>>

StorageKeys == {FileNameOf(id) : id \in WorkIds}

\* getPublicUrl(fileName)
PublicUrl(fileName) == <<"https://supabase/videos/">> \o fileName

\* The Error getVideoFromSupabase throws
DownloadError(msg) == <<"Failed to download video from Supabase: ">> \o msg

\* getVideoFromSupabase(fileName) on the bucket b: the bytes, or the Error
\* thrown when the bucket has no object of that name
getVideoFromSupabase(b, fileName) ==
    IF fileName \in DOMAIN b /\ b[fileName] # Undefined
    THEN [data |-> b[fileName], thrown |-> Undefined]
    ELSE [data |-> Undefined, thrown |-> Some(DownloadError(<<"Object not found">>))]

\* GET /video/:videoId on the bucket b
getVideo(b, videoId) ==
    LET fileName == <<videoId, Mp4>>
        video == getVideoFromSupabase(b, fileName)
    IN  IF video.thrown # Undefined
        THEN [status |-> 404, body |-> Undefined, error |-> Some(Text("Video not found")),
              message |-> video.thrown]
        ELSE [status |-> 200, body |-> video.data, error |-> Undefined,
              message |-> Undefined]

\* The Error uploadVideoToSupabase throws
UploadError(msg) == <<"Failed to upload video to Supabase: ">> \o msg

-----------------------------------------------------------------------------
(* Render pipeline: compileVideo *)

\* A world is what one synchronous segment of compileVideo reads and writes:
\* e, the execution; d, its workspace temp/<jobId>; b, the bucket.

Log(w, ev) == [w EXCEPT !.e.events = Append(@, ev)]

\* return { url: '', logs, error, errorDetails }
Return(w, result) ==
    Log([w EXCEPT !.e.pc = "returned", !.e.result = Some(result)], "return")

\* cleanupTempFiles(tempDir); its catch logs the error of a failed rmSync
Cleanup(w, rmFails) ==
    LET called == Log([w EXCEPT !.d = cleanupTempFiles(w.d, rmFails)], "cleanup")
    IN  IF w.d.exists /\ rmFails THEN Log(called, "cleanup error") ELSE called

\* The catch block of compileVideo returning without releasing the workspace
CatchBlock_NoCleanup(w, message, rmFails) ==
    Return(w,
           [url |-> EmptyText,
            logs |-> <<"Error during compilation: ">> \o message,
            error |-> Some(message),
            errorDetails |-> Undefined])

\* The catch block of compileVideo, with the message of the error caught
CatchBlock(w, message, rmFails) ==
    Return(Cleanup(w, rmFails),
           [url |-> EmptyText,
            logs |-> <<"Error during compilation: ">> \o message,
            error |-> Some(message),
            errorDetails |-> Undefined])

\* Messages of the errors the filesystem calls throw
MkdirError == <<"EACCES: permission denied, mkdir">>
WriteError == <<"ENOSPC: no space left on device, write">>
ReadError == <<"EIO: i/o error, read">>

\* compileVideo starting the renderer before the workspace is set up
CompileHead_SpawnFirst(w, faults) ==
    LET spawned == Log(w, "spawn")
        made == IF w.d.exists THEN spawned
                ELSE Log([spawned EXCEPT !.d = FreshWorkspace], "mkdir")
        written == Log([made EXCEPT !.d.scene = Some(w.e.code)], "write")
        named == [written EXCEPT !.e.sceneName = SceneNameOf(w.e.code)]
    IN  IF ~w.d.exists /\ faults.mkdir
        THEN CatchBlock(w, MkdirError, faults.rm)
        ELSE IF faults.write
        THEN CatchBlock(made, WriteError, faults.rm)
        ELSE [named EXCEPT !.e.pc = "docker"]

\* From the entry of compileVideo to the await of runDockerCommand.
\* faults: which of mkdirSync, writeFileSync and rmSync throw.
CompileHead(w, faults) ==
    LET made == IF w.d.exists THEN w ELSE Log([w EXCEPT !.d = FreshWorkspace], "mkdir")
        written == Log([made EXCEPT !.d.scene = Some(w.e.code)], "write")
        named == [written EXCEPT !.e.sceneName = SceneNameOf(w.e.code)]
    IN  IF ~w.d.exists /\ faults.mkdir
        THEN CatchBlock(w, MkdirError, faults.rm)
        ELSE IF faults.write
        THEN CatchBlock(made, WriteError, faults.rm)
        ELSE Log([named EXCEPT !.e.pc = "docker"], "spawn")

\* The branch for exitCode !== 0 reporting the error summary as stderr
NonZeroExit_Summary(w, run, rmFails) ==
    Return(Cleanup(w, rmFails),
           [url |-> EmptyText,
            logs |-> <<"Docker execution failed (exit code ", ToString(run.exitCode), ")">>,
            error |-> Some(OrElse(run.stderr, <<"Unknown compilation error">>)),
            errorDetails |-> Some([stderr |-> Some(OrElse(run.stderr, <<"Unknown compilation error">>)),
                                   stdout |-> Some(run.stdout),
                                   message |-> Some(<<"Docker process exited with code ",
                                                      ToString(run.exitCode)>>),
                                   statusCode |-> Some(run.exitCode)])])

\* The branch for exitCode !== 0
NonZeroExit(w, run, rmFails) ==
    Return(Cleanup(w, rmFails),
           [url |-> EmptyText,
            logs |-> <<"Docker execution failed (exit code ", ToString(run.exitCode), ")">>,
            error |-> Some(OrElse(run.stderr, <<"Unknown compilation error">>)),
            errorDetails |-> Some([stderr |-> Some(run.stderr),
                                   stdout |-> Some(run.stdout),
                                   message |-> Some(<<"Docker process exited with code ",
                                                      ToString(run.exitCode)>>),
                                   statusCode |-> Some(run.exitCode)])])

\* The branch for !videoPath returning without the error field
VideoNotFound_NoError(w, run, rmFails) ==
    Return(Cleanup(w, rmFails),
           [url |-> EmptyText,
            logs |-> <<"Compilation succeeded but video file not found">>,
            error |-> Undefined,
            errorDetails |-> Some([stderr |-> Some(run.stderr),
                                   stdout |-> Some(run.stdout),
                                   message |-> Some(<<"Video file not found after rendering">>),
                                   statusCode |-> Undefined])])

\* The branch for !videoPath
VideoNotFound(w, run, rmFails) ==
    Return(Cleanup(w, rmFails),
           [url |-> EmptyText,
            logs |-> <<"Compilation succeeded but video file not found">>,
            error |-> Some(<<"Video file not found in output directory">>),
            errorDetails |-> Some([stderr |-> Some(run.stderr),
                                   stdout |-> Some(run.stdout),
                                   message |-> Some(<<"Video file not found after rendering">>),
                                   statusCode |-> Undefined])])

\* From the resolution of runDockerCommand to the await of the upload or to
\* the return.  faults: which of readFileSync and rmSync throw.
AfterDocker(w, run, faults) ==
    LET ran == Log([w EXCEPT !.e.run = Some(run)], "exit")
        videoPath == findRenderedVideo(w.d.media, w.e.sceneName)
        searched == Log([ran EXCEPT !.e.videoPath = videoPath], "find")
        videoBuffer == ReadFile(w.d.media, videoPath[1])
    IN  IF run.exitCode # 0
        THEN NonZeroExit(ran, run, faults.rm)
        ELSE IF videoPath = Undefined
        THEN VideoNotFound(searched, run, faults.rm)
        ELSE IF faults.read
        THEN CatchBlock(searched, ReadError, faults.rm)
        ELSE Log([Log(searched, "read") EXCEPT !.e.video = Some(videoBuffer),
                                               !.e.pc = "upload"], "upload")

\* compileVideo letting the error of a failed removal reach its catch block
AfterUpload_CleanupThrows(w, failure, rmFails) ==
    LET fileName == FileNameOf(w.e.jobId)
        supabaseUrl == PublicUrl(fileName)
        stored == [w EXCEPT !.b[fileName] = w.e.video]
    IN  IF failure # Undefined
        THEN CatchBlock(w, UploadError(failure[1]), rmFails)
        ELSE IF w.d.exists /\ rmFails
        THEN CatchBlock(stored, <<"EBUSY: resource busy or locked, rmdir">>, rmFails)
        ELSE Return(Cleanup(stored, rmFails),
                    [url |-> supabaseUrl,
                     logs |-> <<"Render job completed successfully. Job ID: ", w.e.jobId,
                                ". Video uploaded to Supabase: ">> \o supabaseUrl
                              \o <<"\n\nCompilation output:\n">> \o w.e.run[1].stdout,
                     error |-> Undefined,
                     errorDetails |-> Undefined])

\* compileVideo uploading a second time when the first upload failed
AfterUpload_Retry(w, failure, rmFails) ==
    LET fileName == FileNameOf(w.e.jobId)
        supabaseUrl == PublicUrl(fileName)
        again == IF failure # Undefined THEN Log(w, "upload") ELSE w
        stored == [again EXCEPT !.b[fileName] = w.e.video]
    IN  Return(Cleanup(stored, rmFails),
               [url |-> supabaseUrl,
                logs |-> <<"Render job completed successfully. Job ID: ", w.e.jobId,
                           ". Video uploaded to Supabase: ">> \o supabaseUrl
                         \o <<"\n\nCompilation output:\n">> \o w.e.run[1].stdout,
                error |-> Undefined,
                errorDetails |-> Undefined])

\* From the end of uploadVideoToSupabase to the return.  failure is << >>
\* when the upload succeeded, else the storage error's message.
AfterUpload(w, failure, rmFails) ==
    LET fileName == FileNameOf(w.e.jobId)
        supabaseUrl == PublicUrl(fileName)
        stored == [w EXCEPT !.b[fileName] = w.e.video]
    IN  IF failure # Undefined
        THEN CatchBlock(w, UploadError(failure[1]), rmFails)
        ELSE Return(Cleanup(stored, rmFails),
                    [url |-> supabaseUrl,
                     logs |-> <<"Render job completed successfully. Job ID: ", w.e.jobId,
                                ". Video uploaded to Supabase: ">> \o supabaseUrl
                              \o <<"\n\nCompilation output:\n">> \o w.e.run[1].stdout,
                     error |-> Undefined,
                     errorDetails |-> Undefined])


-----------------------------------------------------------------------------
(* Render pipeline on the render VM: compileVideo of services/compiler.ts *)

\* response.ok
Ok(status) == status \in 200..299

\* A response body: its text, and the object JSON.parse makes of it (<< >>
\* when JSON.parse throws). An absent field of the object is ''.
Body(raw, json) == [raw |-> raw, json |-> json]
ErrorData(stderr, stdout, error, detail) ==
    [stderr |-> stderr, error_output |-> EmptyText, stdout |-> stdout,
     output |-> EmptyText, error |-> error, detail |-> detail, message |-> EmptyText]

\* The catch block of compileVideo letting the error through to its caller
VmCatch_Rethrow(w, message) ==
    Log([w EXCEPT !.e.pc = "returned", !.e.thrown = Some(message)], "throw")

\* The catch block of compileVideo, with the message of the error caught
VmCatch(w, message) ==
    Return(w,
           [url |-> EmptyText,
            logs |-> <<"Error submitting render job: ">> \o message,
            error |-> Some(message),
            errorDetails |-> Undefined])

\* compileVideo up to its first await: fetch(config.vmUrl, ...) is called
VmHead(w) == Log([w EXCEPT !.e.pc = "fetch"], "fetch")

\* fetch has settled: with its rejection, or with a response whose body is
\* read as text when it is not OK and as JSON when it is
AfterFetch(w, outcome) ==
    IF outcome.thrown # Undefined THEN VmCatch(w, outcome.thrown[1])
    ELSE LET got == [w EXCEPT !.e.response = Some([status |-> outcome.status])]
         IN  IF ~Ok(outcome.status)
             THEN Log([got EXCEPT !.e.pc = "text"], "text")
             ELSE Log([got EXCEPT !.e.pc = "json"], "json")

\* The branch for !response.ok, from the text of the body to the return
VmNonOk(w, body) ==
    LET text == body.raw
        status == w.e.response[1].status
        parsed == body.json # Undefined
        errorData == body.json[1]
        stderr == OrElse(errorData.stderr, OrElse(errorData.error_output, EmptyText))
        stdout == OrElse(errorData.stdout, OrElse(errorData.output, EmptyText))
        message == OrElse(errorData.error,
                          OrElse(errorData.detail, OrElse(errorData.message, text)))
        compilationError == IF parsed THEN OrElse(stderr, OrElse(message, text)) ELSE text
        errorDetails ==
            IF parsed
            THEN [statusCode |-> Some(status), message |-> Some(message),
                  stderr |-> Some(stderr), stdout |-> Some(stdout)]
            ELSE [statusCode |-> Some(status), message |-> Some(text),
                  stderr |-> Undefined, stdout |-> Undefined]
    IN  Return(w,
               [url |-> EmptyText,
                logs |-> <<"Error: VM render request failed (HTTP ", ToString(status), ")">>,
                error |-> Some(compilationError),
                errorDetails |-> Some(errorDetails)])

\* response.text() has settled
AfterText(w, outcome) ==
    IF outcome.thrown # Undefined THEN VmCatch(w, outcome.thrown[1])
    ELSE VmNonOk(w, outcome.body)

\* response.json() has settled: downloadVideo(data.url) is called
AfterJson(w, outcome) ==
    IF outcome.thrown # Undefined THEN VmCatch(w, outcome.thrown[1])
    ELSE Log([w EXCEPT !.e.data = Some(outcome.data), !.e.pc = "download"], "download")

\* downloadVideo has settled: uploadVideoToSupabase(videoBuffer, fileName) is called
AfterDownload(w, outcome) ==
    IF outcome.thrown # Undefined THEN VmCatch(w, outcome.thrown[1])
    ELSE Log([w EXCEPT !.e.video = Some(outcome.buffer), !.e.pc = "store"], "upload")

\* uploadVideoToSupabase has settled, to the return of compileVideo
VmAfterUpload(w, failure) ==
    LET fileName == FileNameOf(w.e.jobId)
        supabaseUrl == PublicUrl(fileName)
        stored == [w EXCEPT !.b[fileName] = w.e.video]
    IN  IF failure # Undefined
        THEN VmCatch(w, UploadError(failure[1]))
        ELSE Return(stored,
                    [url |-> supabaseUrl,
                     logs |-> <<"Render job completed successfully. Job ID: ",
                                IF w.e.data[1].jobId # "" THEN w.e.data[1].jobId
                                ELSE w.e.jobId,
                                ". Video uploaded to Supabase: ">> \o supabaseUrl,
                     error |-> Undefined,
                     errorDetails |-> Undefined])

-----------------------------------------------------------------------------
(* Job orchestrator: JobQueueManager *)

MsPerHour == 60 * 60 * 1000

\* The Job object createJob builds
NewJob(jobId, code, t) ==
    [jobId |-> jobId, code |-> code, status |-> PENDING,
     url |-> Undefined, logs |-> Undefined, error |-> Undefined,
     createdAt |-> t, completedAt |-> Undefined]

\* processJob up to its await: job.status = PROCESSING
ProcessJobHead(job) == [job EXCEPT !.status = PROCESSING]

\* processJob forgetting completedAt on the failure branch
ProcessJobTail_NoStamp(job, result, t) ==
    IF Truthy(result.error)
    THEN [job EXCEPT !.status = FAILED,
                     !.error = result.error,
                     !.logs = Some(result.logs)]
    ELSE [job EXCEPT !.status = COMPLETED,
                     !.url = Some(result.url),
                     !.logs = Some(result.logs),
                     !.completedAt = Some(t)]

\* processJob recording the failure but leaving the status as it was
ProcessJobTail_StatusKept(job, result, t) ==
    IF Truthy(result.error)
    THEN [job EXCEPT !.error = result.error,
                     !.logs = Some(result.logs),
                     !.completedAt = Some(t)]
    ELSE [job EXCEPT !.status = COMPLETED,
                     !.url = Some(result.url),
                     !.logs = Some(result.logs),
                     !.completedAt = Some(t)]

\* processJob after compileVideo has resolved with result
ProcessJobTail(job, result, t) ==
    IF Truthy(result.error)
    THEN [job EXCEPT !.status = FAILED,
                     !.error = result.error,
                     !.logs = Some(result.logs),
                     !.completedAt = Some(t)]
    ELSE [job EXCEPT !.status = COMPLETED,
                     !.url = Some(result.url),
                     !.logs = Some(result.logs),
                     !.completedAt = Some(t)]

\* The catch block of processJob, with the message of the error caught
ProcessJobCatch(job, message, t) ==
    [job EXCEPT !.status = FAILED,
                !.error = Some(message),
                !.logs = Some(<<"Unexpected error during compilation: ">> \o message),
                !.completedAt = Some(t)]

\* The execution of compileVideo(jobId, code) started for the job at ref by
\* processJob (req = 0) or for request req by POST /compile (ref = 0)
NewExec(jobId, code, ref, req) ==
    [jobId |-> jobId, code |-> code, job |-> ref, req |-> req, pc |-> "entry",
     sceneName |-> DefaultScene, event |-> Undefined, run |-> Undefined,
     videoPath |-> Undefined, video |-> Undefined,
     response |-> Undefined, data |-> Undefined,
     result |-> Undefined, thrown |-> Undefined, events |-> << >>]

\* The entries clearOldJobs(olderThanHours) deletes at time t
IsOld(job, olderThanHours, t) ==
    job.completedAt # Undefined /\ job.completedAt[1] < t - olderThanHours * MsPerHour

-----------------------------------------------------------------------------
(* The synchronous route: POST /compile *)

\* compileSchema.safeParse(body).success: code is a non-empty string, jobId
\* is a string or is absent
compileSchema(body) == body.code # Undefined /\ Len(body.code[1]) >= 1

\* customJobId || `job_${Date.now().toString(36)}_${Math.random()...}`
RouteJobId(body, n) ==
    IF body.jobId # Undefined /\ body.jobId[1] # "" THEN body.jobId[1]
    ELSE GeneratedIds[n]

\* res.status(400).json({ error: 'Invalid request', details })
BadRequest ==
    [status |-> 400, success |-> Undefined, url |-> Undefined, logs |-> Undefined,
     error |-> Some(Text("Invalid request")), errorDetails |-> Undefined,
     jobId |-> Undefined]

\* The catch block of the handler, with the message of the error caught
InternalError(message) ==
    [status |-> 500, success |-> Some(FALSE), url |-> Undefined,
     logs |-> Some(message), error |-> Some(Text("Internal server error")),
     errorDetails |-> Undefined, jobId |-> Undefined]

\* The handler reporting a failed compilation without the status 500
Respond_FailureAs200(result, jobId) ==
    IF Truthy(result.error) \/ result.url = EmptyText
    THEN [status |-> 200, success |-> Some(FALSE), url |-> Undefined,
          logs |-> Some(result.logs),
          error |-> Some(IF Truthy(result.error) THEN result.error[1]
                         ELSE Text("Compilation failed")),
          errorDetails |-> result.errorDetails, jobId |-> Some(jobId)]
    ELSE [status |-> 200, success |-> Some(TRUE), url |-> Some(result.url),
          logs |-> Some(result.logs), error |-> Undefined,
          errorDetails |-> Undefined, jobId |-> Some(jobId)]

\* The handler after compileVideo has resolved with result
Respond(result, jobId) ==
    IF Truthy(result.error) \/ result.url = EmptyText
    THEN [status |-> 500, success |-> Some(FALSE), url |-> Undefined,
          logs |-> Some(result.logs),
          error |-> Some(IF Truthy(result.error) THEN result.error[1]
                         ELSE Text("Compilation failed")),
          errorDetails |-> result.errorDetails, jobId |-> Some(jobId)]
    ELSE [status |-> 200, success |-> Some(TRUE), url |-> Some(result.url),
          logs |-> Some(result.logs), error |-> Undefined,
          errorDetails |-> Undefined, jobId |-> Some(jobId)]

\* A request as the handler received it
NewRequest(body, jobId) == [body |-> body, jobId |-> jobId, response |-> Undefined]

\* The request of an execution once compileVideo has returned: the handler
\* continues in the same turn of the event loop and responds
Answered(e, request) ==
    IF e.pc # "returned" THEN request
    ELSE [request EXCEPT !.response =
              Some(IF e.thrown # Undefined THEN InternalError(e.thrown[1])
                   ELSE Respond(e.result[1], e.jobId))]

-----------------------------------------------------------------------------
(* The environment *)

Booleans == {TRUE, FALSE}

\* Which of mkdirSync, writeFileSync, readFileSync and rmSync throw
HeadFaults == [mkdir : Booleans, write : Booleans, rm : Booleans]
DockerFaults == [read : Booleans, rm : Booleans]
NoHeadFault == [mkdir |-> FALSE, write |-> FALSE, rm |-> FALSE]
NoDockerFault == [read |-> FALSE, rm |-> FALSE]

SpawnMessage == <<"spawn docker ENOENT">>

\* What the renderer prints: (stdout, stderr)
Outputs == { <<Text("File ready"), EmptyText>>,
             <<EmptyText, SpawnMessage>> }

\* Exit codes of the 'close' event; << >> is null
ExitCodes == {Undefined, Some(0), Some(1)}

RendererEvents ==
    {SpawnError(SpawnMessage)}
        \cup {Closed(c, o[1], o[2]) : c \in ExitCodes, o \in Outputs}

\* The renderer's events with a numeric exit code
NumericEvents == {ev \in RendererEvents : ev.event = "close" => ev.code # Undefined}

File(name, bytes) == [name |-> name, bytes |-> bytes]

\* What the renderer may leave under media/videos/scene, rendering bytes
\* for the scene sceneName
Layout(kind, sceneName, bytes) ==
    CASE kind = "none" -> NoMedia
      [] kind = "named" ->
            [NoMedia EXCEPT !["480p15"] = Listing(<<File(<<sceneName, Mp4>>, bytes)>>)]
      [] kind = "fallback" ->
            [NoMedia EXCEPT !["480p15"] = Listing(<<File(<<"partial", ".txt">>, bytes)>>),
                            !["720p30"] = Listing(<<File(<<"out", Mp4>>, bytes)>>)]
      [] kind = "unreadable" ->
            [NoMedia EXCEPT !["480p15"] = UnreadableDir,
                            !["720p30"] = Listing(<<File(<<sceneName, Mp4>>, bytes)>>)]

LayoutKinds == {"none", "named", "fallback", "unreadable"}
PlainLayoutKinds == {"none", "named"}

\* The workspace d after the renderer has written layout into it
Rendered(d, layout) ==
    IF ~d.exists THEN d
    ELSE [d EXCEPT !.media = [q \in QualityDirSet |->
                                 IF layout[q].kind = "absent" THEN d.media[q] ELSE layout[q]]]

UploadFailures == {Undefined, Some(Text("bucket not found"))}

RetentionHours == {0, 1, 24}

\* Request bodies: code absent, empty or a program; jobId absent, empty or given
Bodies ==
    [code : {Undefined, Some(EmptyText), Some(CodeAlpha), Some(CodePlain)},
     jobId : {Undefined, Some(""), Some("j1")}]

\* What fetch settles with: a rejection, or a response with a status
VmStatuses == {200, 400, 502}
FetchOutcomes ==
    {[thrown |-> Some(<<"fetch failed">>), status |-> 0]}
        \cup {[thrown |-> Undefined, status |-> st] : st \in VmStatuses}

\* Bodies of a response that is not OK: empty, plain text, an object with the
\* renderer's output, an object with a detail only, an empty object
ErrorBodies ==
    {Body(EmptyText, Undefined),
     Body(<<"Bad Gateway">>, Undefined),
     Body(<<"{stderr, stdout, error}">>,
          Some(ErrorData(<<"NameError: name 'Circl' is not defined">>, <<"File ready">>,
                         <<"Render failed">>, EmptyText))),
     Body(<<"{detail}">>,
          Some(ErrorData(EmptyText, EmptyText, EmptyText, <<"Invalid code">>))),
     Body(<<"{}">>, Some(ErrorData(EmptyText, EmptyText, EmptyText, EmptyText)))}

\* What response.text() settles with
TextOutcomes ==
    {[thrown |-> Some(<<"terminated">>), body |-> Body(EmptyText, Undefined)]}
        \cup {[thrown |-> Undefined, body |-> b] : b \in ErrorBodies}

\* What response.json() settles with: a rejection, or the object of an OK
\* response, whose jobId may be absent or any id
VmVideoUrl == <<"http://vm/videos/out.mp4">>
JsonOutcomes ==
    {[thrown |-> Some(<<"Unexpected token < in JSON at position 0">>),
      data |-> [url |-> VmVideoUrl, jobId |-> ""]]}
        \cup {[thrown |-> Undefined, data |-> [url |-> VmVideoUrl, jobId |-> id]] :
                 id \in JobIds \cup {""}}

\* What downloadVideo(data.url) settles with for a video rendered from code
DownloadOutcomes(code) ==
    {[thrown |-> Some(<<"Failed to download video: 404">>), buffer |-> code],
     [thrown |-> Undefined, buffer |-> code]}

\* No application of a pure function is under way
NoProbe == [fn |-> "none"]

\* The directories handed to findRenderedVideo: absent, not listable, empty,
\* holding one video, holding the named video after another one, holding a
\* subtitle file of the scene's name before a video
DirInputs ==
    {AbsentDir, UnreadableDir, Listing(<< >>),
     Listing(<<File(<<"out", Mp4>>, CodePlain)>>),
     Listing(<<File(<<"out", Mp4>>, CodePlain), File(<<"Alpha", Mp4>>, CodeAlpha)>>),
     Listing(<<File(<<"Alpha", ".srt">>, CodeAlpha), File(<<"intro", Mp4>>, CodePlain)>>)}
MediaInputs == [QualityDirSet -> DirInputs]
SceneNames == {"Alpha", DefaultScene}

\* The events one child process delivers to runDockerCommand: one event, or
\* two of them in either order
EventRuns ==
    {<<ev>> : ev \in RendererEvents}
        \cup {<<a, b>> : a \in RendererEvents, b \in RendererEvents}

\* The workspaces handed to cleanupTempFiles: never created, just created,
\* holding the scene file, holding what the renderer left
WorkspaceInputs ==
    {NoWorkspace}
        \cup {[exists |-> TRUE, scene |-> s, media |-> Rendered(FreshWorkspace, Layout(k, n, CodeAlpha)).media] :
                 s \in {Undefined} \cup {Some(c) : c \in RenderCodes},
                 k \in LayoutKinds, n \in SceneNames}

-----------------------------------------------------------------------------
(* State machine *)

\* tempDir = path.join(config.tempDir, jobId)
TempDir(jobId) == <<"temp", jobId>>

World(i) == [e |-> execs[i], d |-> fs[execs[i].jobId], b |-> bucket]

\* The job object of an execution once compileVideo has returned: the
\* continuation of processJob runs as a microtask of the same turn of the
\* event loop, before any other handler
Settled(e, job, t) ==
    IF e.pc # "returned" THEN job
    ELSE IF e.thrown # Undefined
    THEN ProcessJobCatch(job, e.thrown[1], t)
    ELSE ProcessJobTail(job, e.result[1], t)

\* Writes the world w of execution i back and lets processJob continue
Commit(i, w) ==
    /\ execs' = [execs EXCEPT ![i] = w.e]
    /\ fs' = [fs EXCEPT ![w.e.jobId] = w.d]
    /\ bucket' = w.b
    /\ heap' = IF w.e.job = 0 THEN heap
               ELSE [heap EXCEPT ![w.e.job] = Settled(w.e, @, now)]
    /\ requests' = IF w.e.req = 0 THEN requests
                   ELSE [requests EXCEPT ![w.e.req] = Answered(w.e, @)]

\* The service after start-up: no job, no execution, no request
Started ==
    /\ jobs = [id \in JobIds |-> 0]
    /\ heap = << >>
    /\ execs = << >>
    /\ fs = [id \in WorkIds |-> NoWorkspace]
    /\ bucket = [k \in StorageKeys |-> Undefined]
    /\ now = 0
    /\ lastGet = 0
    /\ requests = << >>
    /\ cleared = 0

Init == Started /\ probe = NoProbe

\* jobQueue.createJob(jobId, code), with the synchronous head of processJob
\* and of compileVideo that it runs before returning
createJob(jobId, code, faults) ==
    /\ LET ref == Len(heap) + 1
           job == ProcessJobHead(NewJob(jobId, code, now))
           w == CompileHead([e |-> NewExec(jobId, job.code, ref, 0),
                             d |-> fs[jobId], b |-> bucket], faults)
       IN  /\ jobs' = [jobs EXCEPT ![jobId] = ref]
           /\ heap' = Append(heap, Settled(w.e, job, now))
           /\ execs' = Append(execs, w.e)
           /\ fs' = [fs EXCEPT ![jobId] = w.d]
           /\ bucket' = w.b
    /\ UNCHANGED <<now, lastGet, cleared, requests, probe>>

\* jobQueue.createJob(jobId, code) with the compileVideo of the render VM, up
\* to its await of fetch
createJobVm(jobId, code) ==
    /\ LET ref == Len(heap) + 1
           job == ProcessJobHead(NewJob(jobId, code, now))
           w == VmHead([e |-> NewExec(jobId, job.code, ref, 0),
                        d |-> fs[jobId], b |-> bucket])
       IN  /\ jobs' = [jobs EXCEPT ![jobId] = ref]
           /\ heap' = Append(heap, Settled(w.e, job, now))
           /\ execs' = Append(execs, w.e)
           /\ fs' = [fs EXCEPT ![jobId] = w.d]
           /\ bucket' = w.b
    /\ UNCHANGED <<now, lastGet, cleared, requests, probe>>

\* fetch of execution i settles
FetchSettles(i, outcome) ==
    /\ execs[i].pc = "fetch"
    /\ Commit(i, AfterFetch(World(i), outcome))
    /\ UNCHANGED <<jobs, now, lastGet, cleared, probe>>

\* response.text() of execution i settles and compileVideo returns
TextSettles(i, outcome) ==
    /\ execs[i].pc = "text"
    /\ Commit(i, AfterText(World(i), outcome))
    /\ UNCHANGED <<jobs, now, lastGet, cleared, probe>>

\* response.json() of execution i settles
JsonSettles(i, outcome) ==
    /\ execs[i].pc = "json"
    /\ Commit(i, AfterJson(World(i), outcome))
    /\ UNCHANGED <<jobs, now, lastGet, cleared, probe>>

\* downloadVideo of execution i settles
DownloadSettles(i, outcome) ==
    /\ execs[i].pc = "download"
    /\ Commit(i, AfterDownload(World(i), outcome))
    /\ UNCHANGED <<jobs, now, lastGet, cleared, probe>>

\* uploadVideoToSupabase of execution i settles and compileVideo returns
VmUploadSettles(i, failure) ==
    /\ execs[i].pc = "store"
    /\ Commit(i, VmAfterUpload(World(i), failure))
    /\ UNCHANGED <<jobs, now, lastGet, cleared, probe>>

\* The renderer's end handled only once every earlier execution has returned
DockerSettles_InOrder(i, ev, kind, faults) ==
    /\ execs[i].pc = "docker"
    /\ \A j \in 1..(i - 1) : execs[j].pc = "returned"
    /\ LET w == World(i)
           bytes == IF w.d.scene = Undefined THEN w.e.code ELSE w.d.scene[1]
           d1 == IF ev.event = "close"
                 THEN Rendered(w.d, Layout(kind, w.e.sceneName, bytes))
                 ELSE w.d
       IN  Commit(i, AfterDocker([w EXCEPT !.d = d1, !.e.event = Some(ev)],
                                 runDockerCommand(ev), faults))
    /\ UNCHANGED <<jobs, now, lastGet, cleared, probe>>

\* The renderer of execution i ends with event ev, having written the layout
\* of that kind, and compileVideo continues to its next await or to its return
DockerSettles(i, ev, kind, faults) ==
    /\ execs[i].pc = "docker"
    /\ LET w == World(i)
           bytes == IF w.d.scene = Undefined THEN w.e.code ELSE w.d.scene[1]
           d1 == IF ev.event = "close"
                 THEN Rendered(w.d, Layout(kind, w.e.sceneName, bytes))
                 ELSE w.d
       IN  Commit(i, AfterDocker([w EXCEPT !.d = d1, !.e.event = Some(ev)],
                                 runDockerCommand(ev), faults))
    /\ UNCHANGED <<jobs, now, lastGet, cleared, probe>>

\* uploadVideoToSupabase of execution i ends and compileVideo returns
UploadSettles(i, failure, rmFails) ==
    /\ execs[i].pc = "upload"
    /\ Commit(i, AfterUpload(World(i), failure, rmFails))
    /\ UNCHANGED <<jobs, now, lastGet, cleared, probe>>

\* POST /compile with the body, up to the response 400 or to the await of
\* runDockerCommand inside compileVideo
postCompile(body, faults) ==
    /\ LET n == Len(requests) + 1
           jobId == RouteJobId(body, n)
           w == CompileHead([e |-> NewExec(jobId, body.code[1], 0, n),
                             d |-> fs[jobId], b |-> bucket], faults)
       IN  IF ~compileSchema(body)
           THEN /\ requests' = Append(requests,
                                      [NewRequest(body, Undefined)
                                         EXCEPT !.response = Some(BadRequest)])
                /\ UNCHANGED <<execs, fs, bucket>>
           ELSE /\ requests' = Append(requests,
                                      Answered(w.e, NewRequest(body, Some(jobId))))
                /\ execs' = Append(execs, w.e)
                /\ fs' = [fs EXCEPT ![jobId] = w.d]
                /\ bucket' = w.b
    /\ UNCHANGED <<jobs, heap, now, lastGet, cleared, probe>>

\* getJob dropping the entry it returns
getJob_Evict(jobId) ==
    /\ lastGet' = jobs[jobId]
    /\ jobs' = [jobs EXCEPT ![jobId] = 0]
    /\ UNCHANGED <<heap, execs, fs, bucket, now, cleared, requests, probe>>

\* jobQueue.getJob(jobId)
getJob(jobId) ==
    /\ lastGet' = jobs[jobId]
    /\ UNCHANGED <<jobs, heap, execs, fs, bucket, now, cleared, requests, probe>>

\* clearOldJobs also deleting the jobs completed exactly at the cutoff
clearOldJobs_Inclusive(olderThanHours) ==
    /\ jobs' = [id \in JobIds |->
                  IF jobs[id] # 0 /\ IsOld(heap[jobs[id]], olderThanHours, now + 1)
                  THEN 0 ELSE jobs[id]]
    /\ cleared' = Cardinality({id \in JobIds :
                      jobs[id] # 0 /\ IsOld(heap[jobs[id]], olderThanHours, now + 1)})
    /\ UNCHANGED <<heap, execs, fs, bucket, now, lastGet, requests, probe>>

\* jobQueue.clearOldJobs(olderThanHours)
clearOldJobs(olderThanHours) ==
    /\ jobs' = [id \in JobIds |->
                  IF jobs[id] # 0 /\ IsOld(heap[jobs[id]], olderThanHours, now)
                  THEN 0 ELSE jobs[id]]
    /\ cleared' = Cardinality({id \in JobIds :
                      jobs[id] # 0 /\ IsOld(heap[jobs[id]], olderThanHours, now)})
    /\ UNCHANGED <<heap, execs, fs, bucket, now, lastGet, requests, probe>>

\* Time passes
Tick ==
    /\ now < MaxTime * MsPerHour
    /\ now' = now + MsPerHour
    /\ UNCHANGED <<jobs, heap, execs, fs, bucket, lastGet, cleared, requests, probe>>

\* Jobs run concurrently; the local filesystem does not fail, the renderer
\* ends with a numeric exit code and leaves nothing or the file it was asked for
Next ==
    \/ \E id \in JobIds, code \in Codes :
          Len(execs) < MaxExecs /\ createJob(id, code, NoHeadFault)
    \/ \E i \in 1..Len(execs), ev \in NumericEvents, k \in PlainLayoutKinds :
          DockerSettles(i, ev, k, NoDockerFault)
    \/ \E i \in 1..Len(execs), failure \in UploadFailures :
          UploadSettles(i, failure, FALSE)
    \/ \E id \in JobIds : getJob(id)
    \/ \E h \in RetentionHours : clearOldJobs(h)
    \/ Tick

Spec == Init /\ [][Next]_vars

\* One job is submitted and runs alone, in every environment
NextRender ==
    \/ \E id \in JobIds, code \in RenderCodes, f \in HeadFaults :
          execs = << >> /\ createJob(id, code, f)
    \/ \E i \in 1..Len(execs), ev \in RendererEvents, k \in LayoutKinds, f \in DockerFaults :
          DockerSettles(i, ev, k, f)
    \/ \E i \in 1..Len(execs), failure \in UploadFailures, rmFails \in Booleans :
          UploadSettles(i, failure, rmFails)
    \/ \E id \in JobIds : getJob(id)
    \/ \E h \in RetentionHours : clearOldJobs(h)
    \/ Tick

SpecRender == Init /\ [][NextRender]_vars

\* The renderer of execution i emits 'close' or 'error'
RendererEnds(i) ==
    /\ i \in 1..Len(execs)
    /\ \E ev \in RendererEvents, k \in LayoutKinds, f \in DockerFaults :
          DockerSettles(i, ev, k, f)

\* The storage call of execution i returns or throws
StorageAnswers(i) ==
    /\ i \in 1..Len(execs)
    /\ \E failure \in UploadFailures, rmFails \in Booleans :
          UploadSettles(i, failure, rmFails)

\* SpecRender where every renderer ends and every storage call answers
SpecRenderFair ==
    /\ SpecRender
    /\ \A i \in 1..MaxExecs : WF_vars(RendererEnds(i)) /\ WF_vars(StorageAnswers(i))

\* SpecRender where every storage call answers and time passes, but a
\* renderer may run forever
SpecRenderHung ==
    /\ SpecRender
    /\ WF_vars(Tick)
    /\ \A i \in 1..MaxExecs : WF_vars(StorageAnswers(i))

\* A day passes
DayTick ==
    /\ now < MaxDays * 24 * MsPerHour
    /\ now' = now + 24 * MsPerHour
    /\ UNCHANGED <<jobs, heap, execs, fs, bucket, lastGet, cleared, requests, probe>>

\* One job is submitted and the service is left running for days; callers
\* may call getJob and clearOldJobs
NextUnattended ==
    \/ \E id \in JobIds, code \in Codes, f \in HeadFaults :
          execs = << >> /\ createJob(id, code, f)
    \/ \E i \in 1..Len(execs), ev \in RendererEvents, k \in LayoutKinds, f \in DockerFaults :
          DockerSettles(i, ev, k, f)
    \/ \E i \in 1..Len(execs), failure \in UploadFailures, rmFails \in Booleans :
          UploadSettles(i, failure, rmFails)
    \/ \E id \in JobIds : getJob(id)
    \/ \E h \in RetentionHours : clearOldJobs(h)
    \/ DayTick

\* What happens without anyone asking for it: renderers end, storage calls
\* answer, days pass.  Nothing in the service calls clearOldJobs.
SpecUnattended ==
    /\ Init /\ [][NextUnattended]_vars
    /\ WF_vars(DayTick)
    /\ \A i \in 1..MaxExecs : WF_vars(RendererEnds(i)) /\ WF_vars(StorageAnswers(i))

\* Requests to POST /compile are served concurrently, in every environment
NextRoute ==
    \/ \E body \in Bodies, f \in HeadFaults :
          Len(requests) < MaxExecs /\ postCompile(body, f)
    \/ \E i \in 1..Len(execs), ev \in RendererEvents, k \in LayoutKinds, f \in DockerFaults :
          DockerSettles(i, ev, k, f)
    \/ \E i \in 1..Len(execs), failure \in UploadFailures, rmFails \in Booleans :
          UploadSettles(i, failure, rmFails)

SpecRoute == Init /\ [][NextRoute]_vars

\* The steps of the jobs rendered on the VM
VmSteps ==
    \/ \E i \in 1..Len(execs), o \in FetchOutcomes : FetchSettles(i, o)
    \/ \E i \in 1..Len(execs), o \in TextOutcomes : TextSettles(i, o)
    \/ \E i \in 1..Len(execs), o \in JsonOutcomes : JsonSettles(i, o)
    \/ \E i \in 1..Len(execs) :
          \E o \in DownloadOutcomes(execs[i].code) : DownloadSettles(i, o)
    \/ \E i \in 1..Len(execs), failure \in UploadFailures : VmUploadSettles(i, failure)

\* Jobs are rendered on the VM, concurrently
NextVm ==
    \/ \E id \in JobIds, code \in Codes :
          Len(execs) < MaxExecs /\ createJobVm(id, code)
    \/ VmSteps
    \/ \E id \in JobIds : getJob(id)

SpecVm == Init /\ [][NextVm]_vars

\* One job is submitted and runs alone, rendered locally or on the VM
NextPipelines ==
    \/ NextRender
    \/ \E id \in JobIds, code \in RenderCodes : execs = << >> /\ createJobVm(id, code)
    \/ VmSteps

SpecPipelines == Init /\ [][NextPipelines]_vars

\* findRenderedVideo is applied once to a media directory and a scene name
InitFind ==
    /\ Started
    /\ probe \in [fn : {"findRenderedVideo"}, media : MediaInputs,
                   sceneName : SceneNames, out : {Undefined}]

ApplyFind ==
    /\ probe.fn = "findRenderedVideo"
    /\ probe.out = Undefined
    /\ probe' = [probe EXCEPT !.out = Some(findRenderedVideo(probe.media, probe.sceneName))]
    /\ UNCHANGED <<jobs, heap, execs, fs, bucket, now, lastGet, cleared, requests>>

NextFind == ApplyFind

SpecFind == InitFind /\ [][NextFind]_vars

\* runDockerCommand is given the events of one child process, one at a time
InitRunner ==
    /\ Started
    /\ probe \in [fn : {"runDockerCommand"}, events : EventRuns,
                   delivered : {0}, promise : {Pending}]

DeliverEvent ==
    /\ probe.fn = "runDockerCommand"
    /\ probe.delivered < Len(probe.events)
    /\ probe' = [probe EXCEPT
                    !.delivered = @ + 1,
                    !.promise = Resolve(@, runDockerCommand(probe.events[probe.delivered + 1]))]
    /\ UNCHANGED <<jobs, heap, execs, fs, bucket, now, lastGet, cleared, requests>>

NextRunner == DeliverEvent

SpecRunner == InitRunner /\ [][NextRunner]_vars

\* cleanupTempFiles is called on one workspace, then called again
InitCleanup ==
    /\ Started
    /\ probe \in [fn : {"cleanupTempFiles"}, d : WorkspaceInputs, calls : {<< >>}]

ApplyCleanup ==
    /\ probe.fn = "cleanupTempFiles"
    /\ Len(probe.calls) < MaxCalls
    /\ \E rmFails \in Booleans :
          LET d == IF probe.calls = << >> THEN probe.d
                   ELSE probe.calls[Len(probe.calls)].out.d
          IN  probe' = [probe EXCEPT !.calls =
                          Append(@, [before |-> d, rmFails |-> rmFails,
                                     out |-> tryCleanup(d, rmFails),
                                     d |-> cleanupTempFiles(d, rmFails)])]
    /\ UNCHANGED <<jobs, heap, execs, fs, bucket, now, lastGet, cleared, requests>>

NextCleanup == ApplyCleanup

SpecCleanup == InitCleanup /\ [][NextCleanup]_vars

-----------------------------------------------------------------------------
(* Shorthands of the properties *)

Terminal(status) == status \in {COMPLETED, FAILED}

Refs == 1..Len(heap)
ExecIds == 1..Len(execs)

\* compileVideo is between its entry and its return
InFlight(e) == e.pc \in {"docker", "upload"}

\* The table entry of id, when there is one
HasEntry(id) == jobs[id] # 0
Entry(id) == heap[jobs[id]]

-----------------------------------------------------------------------------
(* C1 *)

\* C1: in every reachable state every job, in the table or displaced from it,
\* has completedAt set if and only if its status is COMPLETED or FAILED.
C1_CompletedAtIffTerminal ==
    \A r \in Refs : (heap[r].completedAt # Undefined) <=> Terminal(heap[r].status)

\* A finished job in the table beside one still processing
C1_Witness ==
    \E a, b \in JobIds :
        /\ HasEntry(a) /\ HasEntry(b)
        /\ Entry(a).status = COMPLETED /\ Entry(a).completedAt # Undefined
        /\ Entry(b).status = PROCESSING /\ Entry(b).completedAt = Undefined

-----------------------------------------------------------------------------
(* C2 *)

\* C2: a second createJob with an id whose job is still pending or processing
\* starts no second render: no two executions of compileVideo for one id are
\* in flight together.
C2_OneRenderPerId ==
    \A i, j \in ExecIds :
        (i # j /\ execs[i].jobId = execs[j].jobId) => ~(InFlight(execs[i]) /\ InFlight(execs[j]))

-----------------------------------------------------------------------------
(* C3 *)

\* C3: once the table shows an id as COMPLETED or FAILED, no step makes it
\* show that id as PENDING or PROCESSING.
C3_TerminalIsFinal ==
    [][\A id \in JobIds :
          (HasEntry(id) /\ Terminal(Entry(id).status))
              => (jobs'[id] # 0 => Terminal(heap'[jobs'[id]].status))]_vars

-----------------------------------------------------------------------------
(* Shorthands on executions *)

Returned(e) == e.pc = "returned"

Happened(e, name) == \E k \in 1..Len(e.events) : e.events[k] = name

\* Every occurrence of b in the events of e has an a before it
Precedes(e, a, b) ==
    \A k \in 1..Len(e.events) :
        e.events[k] = b => \E j \in 1..(k - 1) : e.events[j] = a

\* compileVideo has just returned in this step, for execution i
ReturnsNow(i) ==
    /\ i \in 1..Len(execs')
    /\ Returned(execs'[i])
    /\ ~(i \in 1..Len(execs) /\ Returned(execs[i]))

\* The renderer ran and ended with a numeric exit code
Exited(e) == e.event # Undefined /\ e.event[1].event = "close" /\ e.event[1].code # Undefined

\* The renderer could not be spawned
SpawnFailed(e) == e.event # Undefined /\ e.event[1].event = "error"

\* mkdirSync or writeFileSync threw
SetupFailed(e) ==
    e.result # Undefined /\ e.result[1].error \in {Some(MkdirError), Some(WriteError)}

\* The upload threw
UploadFailed(e) ==
    /\ e.result # Undefined
    /\ \E m \in UploadFailures \ {Undefined} : e.result[1].error = Some(UploadError(m[1]))

Succeeded(e) == e.result # Undefined /\ ~Truthy(e.result[1].error) /\ e.result[1].url # EmptyText

\* Every piece of the text sub occurs in text
TextIn(sub, text) == \A k \in 1..Len(sub) : \E j \in 1..Len(text) : text[j] = sub[k]

-----------------------------------------------------------------------------
(* C4 *)

\* C4 as stated: when compileVideo returns, whatever the outcome, the
\* workspace directory temp/<jobId> does not exist.
C4_WorkspaceGoneAtReturn ==
    [][\A i \in 1..Len(execs') :
          ReturnsNow(i) => ~fs'[execs'[i].jobId].exists]_vars

\* C4, amended: when compileVideo returns, whatever the outcome, the workspace
\* directory does not exist unless rmSync threw, and then cleanupTempFiles
\* has logged that error.
C4_WorkspaceGoneUnlessRmFailed ==
    [][\A i \in 1..Len(execs') :
          ReturnsNow(i) =>
              \/ ~fs'[execs'[i].jobId].exists
              \/ Happened(execs'[i], "cleanup error")]_vars

\* A render that created its workspace, uploaded and returned with the
\* workspace gone
C4_Witness ==
    \E i \in ExecIds :
        /\ Returned(execs[i]) /\ Happened(execs[i], "mkdir") /\ Happened(execs[i], "upload")
        /\ ~fs[execs[i].jobId].exists

-----------------------------------------------------------------------------
(* C5 *)

\* C5: when the renderer exits with code 0 and findRenderedVideo returns null,
\* compileVideo returns the video-not-found error with the captured stderr and
\* stdout and no status code, no upload is started, and the job is FAILED.
C5_ArtifactMissing ==
    \A i \in ExecIds :
        LET e == execs[i]
        IN  (/\ Returned(e) /\ Exited(e) /\ e.event[1].code = Some(0)
             /\ Happened(e, "find") /\ e.videoPath = Undefined)
            => /\ e.result[1].url = EmptyText
               /\ e.result[1].error = Some(<<"Video file not found in output directory">>)
               /\ e.result[1].errorDetails # Undefined
               /\ e.result[1].errorDetails[1].stderr = Some(e.event[1].stderr)
               /\ e.result[1].errorDetails[1].stdout = Some(e.event[1].stdout)
               /\ e.result[1].errorDetails[1].statusCode = Undefined
               /\ ~Happened(e, "upload")
               /\ heap[e.job].status = FAILED

\* Exit code 0 with output printed and no artifact found: the job is FAILED
C5_Witness ==
    \E i \in ExecIds :
        /\ Returned(execs[i]) /\ Exited(execs[i]) /\ execs[i].event[1].code = Some(0)
        /\ execs[i].event[1].stdout # EmptyText
        /\ Happened(execs[i], "find") /\ execs[i].videoPath = Undefined
        /\ heap[execs[i].job].status = FAILED

-----------------------------------------------------------------------------
(* C6 *)

\* C6: when the renderer exits with a non-zero code, the result's stderr is
\* the captured stderr unchanged, its status code is the exit code, and
\* neither findRenderedVideo nor the upload is run.
C6_RenderFailure ==
    \A i \in ExecIds :
        LET e == execs[i]
        IN  (Returned(e) /\ Exited(e) /\ e.event[1].code[1] # 0)
            => /\ e.result[1].errorDetails # Undefined
               /\ e.result[1].errorDetails[1].stderr = Some(e.event[1].stderr)
               /\ e.result[1].errorDetails[1].statusCode = e.event[1].code
               /\ ~Happened(e, "find")
               /\ ~Happened(e, "upload")

\* A non-zero exit that printed nothing on stderr
C6_Witness ==
    \E i \in ExecIds :
        /\ Returned(execs[i]) /\ Exited(execs[i]) /\ execs[i].event[1].code = Some(1)
        /\ execs[i].event[1].stderr = EmptyText
        /\ execs[i].result[1].errorDetails[1].stderr = Some(EmptyText)

-----------------------------------------------------------------------------
(* C7 *)

\* C7: when mkdirSync or writeFileSync throws, or the renderer cannot be
\* spawned, the job ends FAILED with neither findRenderedVideo nor the upload
\* run; when the workspace setup threw, the renderer is not spawned either.
C7_AbortWithoutDiscovery ==
    \A i \in ExecIds :
        LET e == execs[i]
        IN  /\ (Returned(e) /\ (SetupFailed(e) \/ SpawnFailed(e)))
               => /\ heap[e.job].status = FAILED
                  /\ ~Happened(e, "find")
                  /\ ~Happened(e, "upload")
            /\ (Returned(e) /\ SetupFailed(e)) => ~Happened(e, "spawn")

\* A spawn failure that ended the job
C7_Witness ==
    \E i \in ExecIds :
        /\ Returned(execs[i]) /\ SpawnFailed(execs[i])
        /\ heap[execs[i].job].status = FAILED

-----------------------------------------------------------------------------
(* C8 *)

\* C8: the value runDockerCommand resolves with for a process that could not
\* be spawned is never equal to the value it resolves with for a process that
\* ran and exited.
C8_SpawnFailureDistinct ==
    \A i, j \in ExecIds :
        (SpawnFailed(execs[i]) /\ Exited(execs[j])) => execs[i].run # execs[j].run

-----------------------------------------------------------------------------
(* C9 *)

\* C9: when the upload fails after a successful render, the job is FAILED and
\* the renderer's captured stdout and stderr are still in the job's logs or
\* error.
C9_DiagnosticsKept ==
    \A i \in ExecIds :
        LET e == execs[i]
            job == heap[e.job]
        IN  (Returned(e) /\ UploadFailed(e))
            => /\ job.status = FAILED
               /\ TextIn(e.event[1].stdout, job.logs[1] \o job.error[1])
               /\ TextIn(e.event[1].stderr, job.logs[1] \o job.error[1])

-----------------------------------------------------------------------------
(* C10 *)

\* C10: every execution of compileVideo calls cleanupTempFiles before it
\* returns, and one that succeeds has read the artifact before that call.
C10_ReleaseBeforeReturn ==
    \A i \in ExecIds :
        LET e == execs[i]
        IN  Returned(e)
            => /\ Happened(e, "cleanup")
               /\ Precedes(e, "cleanup", "return")
               /\ Succeeded(e) => (Happened(e, "read") /\ Precedes(e, "read", "cleanup"))

\* A successful render: read, then upload, then release
C10_Witness ==
    \E i \in ExecIds :
        /\ Returned(execs[i]) /\ Succeeded(execs[i])
        /\ Happened(execs[i], "read") /\ Happened(execs[i], "cleanup")

-----------------------------------------------------------------------------
(* C11 *)

\* C11: within one job run alone, the workspace is created and the source
\* written before the renderer is started, the renderer has ended before the
\* artifact is looked for, and the artifact is looked for before the
\* workspace is released and before the upload; nothing is uploaded unless
\* the search returned a path.
C11_StrictOrder ==
    \A i \in ExecIds :
        LET e == execs[i]
        IN  /\ Precedes(e, "mkdir", "write")
            /\ Precedes(e, "mkdir", "spawn")
            /\ Precedes(e, "write", "spawn")
            /\ Precedes(e, "spawn", "exit")
            /\ Precedes(e, "exit", "find")
            /\ Precedes(e, "find", "read")
            /\ Precedes(e, "find", "upload")
            /\ Happened(e, "find") => Precedes(e, "find", "cleanup")
            /\ Happened(e, "upload") => e.videoPath # Undefined
            /\ e.pc = "docker" => ~Happened(e, "exit") /\ ~Happened(e, "find")

\* C11 witness: an execution went through every stage and returned.
C11_Witness ==
    \E i \in ExecIds :
        LET e == execs[i]
        IN  /\ Returned(e) /\ Succeeded(e)
            /\ Happened(e, "spawn") /\ Happened(e, "find")
            /\ Happened(e, "upload") /\ Happened(e, "cleanup")

-----------------------------------------------------------------------------
(* C12 *)

\* C12: when every renderer ends and every storage call answers, every job
\* createJob accepted eventually is COMPLETED or FAILED, whatever failed
\* inside the pipeline.
C12_EventuallyTerminal ==
    \A r \in 1..MaxExecs :
        (Len(heap) >= r) ~> (Len(heap) >= r /\ Terminal(heap[r].status))

\* C12 witness: a job is FAILED because an error was thrown and caught inside
\* the pipeline after the renderer had ended.
C12_Witness ==
    \E i \in ExecIds :
        /\ Returned(execs[i])
        /\ Happened(execs[i], "exit")
        /\ execs[i].result[1].error \in {Some(ReadError)}
        /\ heap[execs[i].job].status = FAILED

-----------------------------------------------------------------------------
(* C13 *)

\* C13 as stated: a render attempt is bounded in time, so an execution that
\* waits for its renderer eventually returns even if the renderer never ends
\* on its own.
C13_RenderIsBounded ==
    \A i \in 1..MaxExecs :
        (Len(execs) >= i /\ execs[i].pc = "docker")
            ~> (Len(execs) >= i /\ Returned(execs[i]))

-----------------------------------------------------------------------------
(* Shorthands on the locator's input *)

\* The directory can be listed and holds a file ending in .mp4
ArtifactIn(d) ==
    d.kind = "dir" /\ \E i \in 1..Len(d.files) : EndsWithMp4(d.files[i].name)

\* findRenderedVideo has been applied
Applied == probe.fn = "findRenderedVideo" /\ probe.out # Undefined

\* The smallest element of a non-empty set of numbers
Least(S) == CHOOSE n \in S : \A m \in S : n <= m

-----------------------------------------------------------------------------
(* C14 *)

-----------------------------------------------------------------------------
(* C15 *)

\* C15 as stated: whenever some candidate directory holds a .mp4 file,
\* findRenderedVideo returns a path, also when an earlier directory is
\* missing, empty or cannot be listed.
C15_NullOnlyWhenExhausted ==
    (Applied /\ \E k \in 1..Len(qualityDirs) : ArtifactIn(probe.media[qualityDirs[k]]))
        => probe.out[1] # Undefined

-----------------------------------------------------------------------------
(* C16 *)

\* The key of the execution's video holds bytes in the bucket
Uploaded(e) == bucket[FileNameOf(e.jobId)] # Undefined

\* C16: the renderer is started with the name of the first class that
\* extends Scene in the source, and with 'Scene' when there is none; in both
\* cases, when the renderer has exited 0, a video was found and the upload
\* succeeded, the job is COMPLETED with a non-empty url.
C16_SceneNameAndSuccess ==
    \A i \in ExecIds :
        LET e == execs[i]
            job == heap[e.job]
        IN  /\ Happened(e, "spawn") =>
                  /\ e.code = CodeAlpha => e.sceneName = "Alpha"
                  /\ e.code = CodeTwo => e.sceneName = "Beta"
                  /\ e.code = CodePlain => e.sceneName = "Scene"
            /\ (/\ Returned(e) /\ Exited(e) /\ e.run[1].exitCode = 0
                /\ e.videoPath # Undefined /\ Uploaded(e))
               => /\ job.status = COMPLETED
                  /\ Truthy(job.url)
                  /\ job.url[1] = PublicUrl(FileNameOf(e.jobId))

\* C16 witness: a source without a Scene class was rendered as 'Scene', its
\* video was found by the fallback and the job is COMPLETED.
C16_Witness ==
    \E i \in ExecIds :
        /\ execs[i].code = CodePlain /\ execs[i].sceneName = "Scene"
        /\ Exited(execs[i]) /\ Uploaded(execs[i])
        /\ execs[i].videoPath = Some([dir |-> "720p30", name |-> <<"out", Mp4>>])
        /\ heap[execs[i].job].status = COMPLETED

-----------------------------------------------------------------------------
(* C17 *)

\* What a caller of getJob reads of a job
JobView(job) ==
    [status |-> job.status, url |-> job.url, error |-> job.error, logs |-> job.logs,
     createdAt |-> job.createdAt, completedAt |-> job.completedAt]

-----------------------------------------------------------------------------
(* C18 *)

\* C18 as stated: two executions of compileVideo that overlap in time never
\* have the same workspace directory, also when two requests carry the same
\* jobId.
C18_WorkspaceNotShared ==
    \A i, j \in ExecIds :
        (i # j /\ InFlight(execs[i]) /\ InFlight(execs[j]))
            => TempDir(execs[i].jobId) # TempDir(execs[j].jobId)

-----------------------------------------------------------------------------
(* C19 *)

\* C19 as stated: the renderer is only started in a workspace this execution
\* created, holding nothing but the source it wrote, and the video an
\* execution reads was rendered from its own source.
C19_OwnWorkspace ==
    \A i \in ExecIds :
        LET e == execs[i]
        IN  /\ Happened(e, "spawn") => Happened(e, "mkdir")
            /\ e.video # Undefined => e.video[1] = e.code

-----------------------------------------------------------------------------
(* C20 *)

\* The executions of compileVideo started for request r
ExecsOf(r) == {i \in ExecIds : execs[i].req = r}

\* C20: a request whose body has no code or an empty code is answered 400
\* and starts no execution of compileVideo; any other request starts exactly
\* one, is answered when it returns and not before, with 200 and success
\* true when the result has no error and a non-empty url, and with 500,
\* success false, an error text and the logs in every other case.
C20_ThreeOutcomes ==
    \A r \in 1..Len(requests) :
        LET q == requests[r]
            valid == q.body.code # Undefined /\ q.body.code[1] # EmptyText
        IN  IF ~valid
            THEN /\ ExecsOf(r) = {}
                 /\ q.response # Undefined
                 /\ q.response[1].status = 400
                 /\ q.response[1].success = Undefined
            ELSE /\ Cardinality(ExecsOf(r)) = 1
                 /\ \A i \in ExecsOf(r) :
                       LET e == execs[i]
                           res == e.result[1]
                           ok == ~Truthy(res.error) /\ res.url # EmptyText
                       IN  IF ~Returned(e) THEN q.response = Undefined
                           ELSE /\ q.response # Undefined
                                /\ ok => /\ q.response[1].status = 200
                                         /\ q.response[1].success = Some(TRUE)
                                         /\ q.response[1].url = Some(res.url)
                                /\ ~ok => /\ q.response[1].status = 500
                                          /\ q.response[1].success = Some(FALSE)
                                          /\ Truthy(q.response[1].error)
                                          /\ q.response[1].logs = Some(res.logs)

\* C20 witness: one request was rejected, another one failed in the pipeline.
C20_Witness ==
    \E r1, r2 \in 1..Len(requests) :
        /\ requests[r1].response # Undefined /\ requests[r1].response[1].status = 400
        /\ requests[r2].response # Undefined /\ requests[r2].response[1].status = 500
        /\ ExecsOf(r1) = {} /\ ExecsOf(r2) # {}

-----------------------------------------------------------------------------
(* C21 *)

\* C21 as stated: when createJob returns, the job it created is in the table
\* with status PENDING and its render has not started.
C21_PendingAtReturn ==
    [][Len(heap') > Len(heap)
          => /\ heap'[Len(heap')].status = PENDING
             /\ \A i \in 1..Len(execs') : execs'[i].job # Len(heap')]_vars

-----------------------------------------------------------------------------
(* C22 *)

\* The entries of the table a sweep with h hours of retention must delete:
\* those of the jobs completed more than h hours before the clock t
Expired(h, t) ==
    {id \in JobIds : /\ HasEntry(id)
                     /\ Entry(id).completedAt # Undefined
                     /\ Entry(id).completedAt[1] + h * 3600000 < t}

-----------------------------------------------------------------------------
(* C23 *)

\* C23 as stated: the entry of every terminal job is eventually removed from
\* the table, without any caller asking for it.
C23_EventuallySwept ==
    \A id \in JobIds :
        (HasEntry(id) /\ Terminal(Entry(id).status)) ~> ~HasEntry(id)

-----------------------------------------------------------------------------
(* C24 *)

\* The executions for id whose upload succeeded
UploadedFor(id) ==
    {i \in ExecIds : execs[i].jobId = id /\ Returned(execs[i]) /\ Succeeded(execs[i])}

\* C24: the video of a job is stored under the key <jobId>.mp4 and under no
\* other; once a job with id J has succeeded, GET /video/J answers 200 with
\* bytes that compileVideo read from a rendered file and uploaded for J.
C24_ArtifactRoundTrip ==
    /\ \A k \in DOMAIN bucket :
          bucket[k] # Undefined
              => \E i \in ExecIds : k = <<execs[i].jobId, ".mp4">> /\ Happened(execs[i], "upload")
    /\ \A id \in JobIds :
          UploadedFor(id) # {}
              => /\ getVideo(bucket, id).status = 200
                 /\ \E i \in UploadedFor(id) :
                       /\ execs[i].video # Undefined
                       /\ getVideo(bucket, id).body = execs[i].video

\* C24 witness: a job has succeeded and its video is served; the video of
\* the other id is not found.
C24_Witness ==
    \E i \in ExecIds, id \in JobIds :
        /\ Returned(execs[i]) /\ Succeeded(execs[i])
        /\ heap[execs[i].job].status = COMPLETED
        /\ getVideo(bucket, execs[i].jobId).status = 200
        /\ getVideo(bucket, id).status = 404

-----------------------------------------------------------------------------
(* C25 *)

\* Execution i takes its next step, whatever the others are doing
Advances(i) ==
    \/ \E ev \in NumericEvents, k \in PlainLayoutKinds :
          DockerSettles(i, ev, k, NoDockerFault)
    \/ \E failure \in UploadFailures : UploadSettles(i, failure, FALSE)

\* No other execution has the job id of execution i
AloneOnId(i) == \A j \in ExecIds : j # i => execs[j].jobId # execs[i].jobId

\* C25: an execution that waits for its renderer or its upload can always
\* take its next step, and from the renderer's end can return, whatever the
\* other execution is waiting for; and when the two jobs have distinct ids
\* an execution works in a directory it created, reads the video rendered
\* from its own source and, once succeeded, finds that video under its key.
C25_NoSerialization ==
    \A i \in ExecIds :
        LET e == execs[i]
        IN  /\ InFlight(e) => ENABLED Advances(i)
            /\ e.pc = "docker" => ENABLED (Advances(i) /\ Returned(execs'[i]))
            /\ AloneOnId(i) =>
                  /\ Happened(e, "spawn") => Happened(e, "mkdir")
                  /\ e.video # Undefined => e.video[1] = e.code
                  /\ (Returned(e) /\ Succeeded(e)) => bucket[FileNameOf(e.jobId)] = e.video

\* C25 witness: the job submitted second is terminal while the job submitted
\* first, under another id, still waits for its renderer.
C25_Witness ==
    /\ Len(execs) = 2
    /\ execs[1].jobId # execs[2].jobId
    /\ execs[1].pc = "docker"
    /\ Returned(execs[2])
    /\ Terminal(heap[execs[2].job].status)
    /\ heap[execs[1].job].status = PROCESSING

-----------------------------------------------------------------------------
(* C26 *)

\* C26 as stated: the value getJob returned does not change when the
\* orchestrator later moves the job to another state.
C26_ReturnedValueIsSnapshot ==
    [][(lastGet # 0 /\ lastGet' = lastGet) => heap'[lastGet] = heap[lastGet]]_vars

-----------------------------------------------------------------------------
(* C27 *)

\* C27 as stated: every render started through POST /compile has an entry
\* in the job table under its job id.
C27_RouteUsesJobTable ==
    \A i \in ExecIds :
        execs[i].req # 0 => (execs[i].jobId \in JobIds /\ HasEntry(execs[i].jobId))

-----------------------------------------------------------------------------
(* C28 *)

\* C28: when the renderer exited 0, the video was found and uploaded, and
\* the removal of the workspace failed, compileVideo still returns the
\* success result with the url of the upload, and the job is COMPLETED.
C28_CleanupFailureKeepsSuccess ==
    \A i \in ExecIds :
        LET e == execs[i]
        IN  (/\ Returned(e) /\ Happened(e, "cleanup error")
             /\ Exited(e) /\ e.run[1].exitCode = 0
             /\ e.videoPath # Undefined /\ Uploaded(e))
            => /\ Succeeded(e)
               /\ e.result[1].url = PublicUrl(FileNameOf(e.jobId))
               /\ heap[e.job].status = COMPLETED
               /\ fs[e.jobId].exists

\* C28 witness: a job is COMPLETED although its workspace could not be removed.
C28_Witness ==
    \E i \in ExecIds :
        /\ Returned(execs[i]) /\ Happened(execs[i], "cleanup error")
        /\ Uploaded(execs[i]) /\ Succeeded(execs[i])
        /\ fs[execs[i].jobId].exists
        /\ heap[execs[i].job].status = COMPLETED

-----------------------------------------------------------------------------
(* C29 *)

\* How many times name occurs in the events of e
Times(e, name) == Cardinality({k \in 1..Len(e.events) : e.events[k] = name})

\* C29: an execution of compileVideo starts the renderer at most once and
\* the upload at most once, also after a failure, and every job has exactly
\* one execution of compileVideo.
C29_NoRetry ==
    /\ \A i \in ExecIds :
          /\ Times(execs[i], "spawn") <= 1
          /\ Times(execs[i], "upload") <= 1
          /\ Times(execs[i], "return") <= 1
    /\ \A r \in Refs : Cardinality({i \in ExecIds : execs[i].job = r}) = 1

\* C29 witness: an upload failed and the execution returned the failure
\* after one attempt.
C29_Witness ==
    \E i \in ExecIds :
        /\ Returned(execs[i]) /\ UploadFailed(execs[i])
        /\ Times(execs[i], "upload") = 1
        /\ heap[execs[i].job].status = FAILED

-----------------------------------------------------------------------------
(* C30 *)

\* C30 as stated: a FAILED job whose renderer ran holds the renderer's raw
\* stderr and raw stdout in its record.
C30_FailedJobKeepsDetail ==
    \A i \in ExecIds :
        LET e == execs[i]
            job == heap[e.job]
            record == job.error[1] \o job.logs[1]
        IN  (Returned(e) /\ Exited(e) /\ job.status = FAILED)
                => /\ TextIn(e.run[1].stderr, record)
                   /\ TextIn(e.run[1].stdout, record)

-----------------------------------------------------------------------------
(* C31 *)

\* C31: the promise of runDockerCommand is never rejected; once an event of
\* the child process has been delivered it is fulfilled with a record of
\* stdout, stderr and exitCode computed from the first event delivered ('close':
\* the process's output and its exit code, null read as 0; 'error': the error's
\* message as stderr and exit code 1), whatever event is delivered after it.
C31_FirstEventFixesResult ==
    probe.fn = "runDockerCommand" =>
        /\ probe.promise.state \in {"pending", "fulfilled"}
        /\ probe.delivered = 0 => probe.promise.state = "pending"
        /\ probe.delivered >= 1 =>
              LET ev == probe.events[1]
              IN  /\ probe.promise.state = "fulfilled"
                  /\ DOMAIN probe.promise.value = {"stdout", "stderr", "exitCode"}
                  /\ ev.event = "close" =>
                        /\ probe.promise.value.stdout = ev.stdout
                        /\ probe.promise.value.stderr = ev.stderr
                        /\ probe.promise.value.exitCode =
                              (IF ev.code = Undefined THEN 0 ELSE ev.code[1])
                  /\ ev.event = "error" =>
                        /\ probe.promise.value.stderr = ev.message
                        /\ probe.promise.value.exitCode = 1

\* 'error' then 'close' with exit code 0 were both delivered, and the promise
\* holds exit code 1
C31_Witness ==
    /\ probe.fn = "runDockerCommand"
    /\ probe.delivered = 2
    /\ probe.events[1].event = "error"
    /\ probe.events[2].event = "close"
    /\ probe.events[2].code = Some(0)
    /\ probe.promise.state = "fulfilled"
    /\ probe.promise.value.exitCode = 1

-----------------------------------------------------------------------------
(* C32 *)

\* C32: no call of cleanupTempFiles throws; a call on a workspace that does
\* not exist (never created, or already removed) leaves the filesystem as it
\* was; a call on an existing workspace removes it whole unless rmSync fails,
\* and then leaves it as it was and logs the failure; and a second call in the
\* same circumstances leaves what the first call left.
C32_CleanupIdempotent ==
    probe.fn = "cleanupTempFiles" =>
        /\ \A k \in 1..Len(probe.calls) :
              LET c == probe.calls[k]
              IN  /\ c.out.thrown = Undefined
                  /\ c.out.d = c.d
                  /\ ~c.before.exists => c.out.d = c.before
                  /\ (c.before.exists /\ ~c.rmFails) => c.out.d = NoWorkspace
                  /\ (c.before.exists /\ c.rmFails) =>
                        (c.out.d = c.before /\ c.out.logged # Undefined)
        /\ Len(probe.calls) = 2 =>
              /\ probe.calls[1].rmFails = probe.calls[2].rmFails =>
                    probe.calls[2].out.d = probe.calls[1].out.d
              /\ ~probe.calls[1].out.d.exists =>
                    probe.calls[2].out.d = probe.calls[1].out.d

\* A workspace holding a scene file was removed by the first call, and the
\* second call, with rmSync failing, changed nothing and threw nothing
C32_Witness ==
    /\ probe.fn = "cleanupTempFiles"
    /\ Len(probe.calls) = 2
    /\ probe.d.exists /\ probe.d.scene # Undefined
    /\ ~probe.calls[1].rmFails /\ probe.calls[1].out.d = NoWorkspace
    /\ probe.calls[2].rmFails
    /\ probe.calls[2].out.d = NoWorkspace
    /\ probe.calls[2].out.thrown = Undefined

-----------------------------------------------------------------------------
(* C35 *)

\* The renderer of e ended without an exit code: 'close' came with code null
Signalled(e) ==
    e.event # Undefined /\ e.event[1].event = "close" /\ e.event[1].code = Undefined

\* C35: an execution whose renderer ended without an exit code (terminated by
\* a signal) gets a failed exit from runDockerCommand, searches for no video,
\* uploads nothing and does not return a success.
C35_SignalIsFailure ==
    \A i \in ExecIds :
        LET e == execs[i]
        IN  Signalled(e) =>
              /\ e.run # Undefined => e.run[1].exitCode # 0
              /\ ~Happened(e, "find")
              /\ ~Happened(e, "upload")
              /\ ~Succeeded(e)

-----------------------------------------------------------------------------
(* C36 *)

\* C36: whenever the table shows an id as COMPLETED, the bucket holds under
\* <id>.mp4 the video rendered from the source code recorded in that table
\* entry, also when two submissions of one id with different sources overlap.
C36_ArtifactOfTheEntry ==
    \A id \in JobIds :
        (HasEntry(id) /\ Entry(id).status = COMPLETED) =>
            bucket[FileNameOf(id)] = Some(Entry(id).code)

-----------------------------------------------------------------------------
(* C33 *)

\* C33: every job, in the table or displaced from it, has no url, no error
\* and no logs while it is PENDING or PROCESSING; a COMPLETED job has a url,
\* which is not the empty string, and no error; a FAILED job has an error,
\* which is not the empty string, and no url.
C33_ResultMatchesStatus ==
    \A r \in Refs :
        LET job == heap[r]
        IN  /\ ~Terminal(job.status) =>
                  (job.url = Undefined /\ job.error = Undefined /\ job.logs = Undefined)
            /\ job.status = COMPLETED => (Truthy(job.url) /\ job.error = Undefined)
            /\ job.status = FAILED => (Truthy(job.error) /\ job.url = Undefined)

-----------------------------------------------------------------------------
(* C34 *)

\* C34: when compileVideo has returned to processJob a result whose url is
\* '', the job is FAILED; and the job is COMPLETED exactly when POST /compile
\* would answer that result with 200.
C34_CompletedOnlyWithUrl ==
    \A i \in ExecIds :
        LET e == execs[i]
        IN  (Returned(e) /\ e.job # 0 /\ e.result # Undefined) =>
              /\ e.result[1].url = EmptyText => heap[e.job].status = FAILED
              /\ heap[e.job].status = COMPLETED
                    <=> Respond(e.result[1], e.jobId).status = 200

-----------------------------------------------------------------------------
(* C37 *)

\* The messages of the errors thrown inside compileVideo
ExceptionMessages ==
    {MkdirError, WriteError, ReadError}
        \cup {o.thrown[1] : o \in {x \in FetchOutcomes : x.thrown # Undefined}}
        \cup {o.thrown[1] : o \in {x \in TextOutcomes : x.thrown # Undefined}}
        \cup {o.thrown[1] : o \in {x \in JsonOutcomes : x.thrown # Undefined}}
        \cup {o.thrown[1] : o \in {x \in DownloadOutcomes(CodePlain) : x.thrown # Undefined}}
        \cup {UploadError(m[1]) : m \in UploadFailures \ {Undefined}}

\* C37: no execution of compileVideo, local or on the VM, ends by throwing:
\* once it has ended it has returned a result; when the result's error is the
\* message of an exception thrown inside compileVideo, its url is '' and its
\* logs end with that message; and processJob has then taken its error and
\* its logs from the result, not from its own catch block.
C37_NeverRejects ==
    \A i \in ExecIds :
        LET e == execs[i]
        IN  /\ e.thrown = Undefined
            /\ Returned(e) =>
                  /\ e.result # Undefined
                  /\ heap[e.job].logs = Some(e.result[1].logs)
                  /\ heap[e.job].error \in {Undefined, e.result[1].error}
                  /\ \A m \in ExceptionMessages :
                        e.result[1].error = Some(m) =>
                            /\ e.result[1].url = EmptyText
                            /\ \E prefix \in {<<"Error during compilation: ">>,
                                                <<"Error submitting render job: ">>} :
                                  e.result[1].logs = prefix \o m
                            /\ heap[e.job].status = FAILED
                            /\ heap[e.job].error = Some(m)

\* The download of a job rendered on the VM failed, and the job is FAILED
\* with the message of that failure
C37_Witness ==
    \E i \in ExecIds :
        /\ Returned(execs[i])
        /\ Happened(execs[i], "download")
        /\ ~Happened(execs[i], "upload")
        /\ execs[i].result # Undefined
        /\ execs[i].result[1].url = EmptyText
        /\ \E o \in DownloadOutcomes(execs[i].code) :
              o.thrown # Undefined /\ heap[execs[i].job].error = o.thrown
        /\ heap[execs[i].job].status = FAILED

-----------------------------------------------------------------------------
(* C38 *)

\* C38: an execution on the VM whose response is not OK never calls the
\* download nor the upload, and returns a result with url '' whose
\* errorDetails carry the status of the response, which leaves the job FAILED;
\* an execution whose response is OK calls the upload only after the
\* download, and when it succeeds its url is that of the key <jobId>.mp4 of
\* its own job id, under which the bucket holds a video, whatever job id the
\* VM echoed.
C38_VmPipeline ==
    \A i \in ExecIds :
        LET e == execs[i]
        IN  e.response # Undefined =>
              /\ ~Ok(e.response[1].status) =>
                    /\ ~Happened(e, "download")
                    /\ ~Happened(e, "upload")
                    /\ Returned(e) =>
                          /\ e.result # Undefined
                          /\ e.result[1].url = EmptyText
                          /\ e.result[1].errorDetails # Undefined
                          /\ e.result[1].errorDetails[1].statusCode
                                = Some(e.response[1].status)
                          /\ heap[e.job].status = FAILED
              /\ Ok(e.response[1].status) =>
                    /\ Precedes(e, "download", "upload")
                    /\ (Returned(e) /\ Succeeded(e)) =>
                          /\ e.result[1].url = PublicUrl(FileNameOf(e.jobId))
                          /\ bucket[FileNameOf(e.jobId)] # Undefined

====
